---- MODULE Spec2Model ----
(***************************************************************************)
(* The two MCP test servers of examples/test-servers:                      *)
(*   python-server.py          MCPTestServer       (stdio, one line/unit)  *)
(*   websocket_mcp_server.py   WebSocketMCPServer  (one text frame/unit)   *)
(* One session of one of the two servers is modelled: its read / parse /   *)
(* dispatch / write loop, with the handlers as operators computed the way  *)
(* the Python code computes them (dict.get, subscripting, exceptions).     *)
(***************************************************************************)
EXTENDS Integers, Sequences, FiniteSets, TLC

VARIABLES server, self, state, exitPath, last, prevKind, listed, remaining

\* the transport and the position of the loop, for the step-by-step view of a
\* session: units the client has sent and the loop has not read, the unit
\* being handled, the response not yet written, the messages written, the
\* units read so far
VARIABLES pc, inbox, cur, pending, wire, arrived, closed, taken

seqVars == <<pc, inbox, cur, pending, wire, arrived, closed, taken>>

\* the connections of one WebSocket server: per connection its state, the
\* frames read, the response not yet sent and the responses sent
VARIABLES mstate, got, mpend, sent

multiVars == <<mstate, got, mpend, sent>>

vars == <<server, self, state, exitPath, last, prevKind, listed, remaining, seqVars,
          multiVars>>

(***************************************************************************)
(* Bounds of the model.                                                    *)
(***************************************************************************)
\* most message units a session reads before the end of its stream
MaxUnits == 3
\* most message units a client sends in the step-by-step view of a session
MaxQueue == 3
\* most frames a client sends on one of the concurrent connections
MaxFrames == 2
\* numeric request ids are 1..MaxId (next to the string id "1", null and no id)
MaxId == 1
\* clock readings handed to datetime.now() are 0..MaxClock
MaxClock == 1

(***************************************************************************)
(* JSON values as json.loads builds them: None, bool, int, str, list, dict *)
(***************************************************************************)
PyNone == [t |-> "NoneType"]
JBool(b) == [t |-> "bool", b |-> b]
JNum(n) == [t |-> "int", n |-> n]
\* the int 10^e + n, for magnitudes beyond the range of the model's integers
JBigInt(e, n) == [t |-> "int", n |-> n, e |-> e]
\* the float h/2: the floats of the model are the multiples of one half
JFloat(h) == [t |-> "float", h |-> h]
JStr(s) == [t |-> "str", s |-> s]
JList(items) == [t |-> "list", items |-> items]
JDict(f) == [t |-> "dict", f |-> f]

EmptyDict == [k \in {} |-> k]

\* a marker used only to enumerate inputs: the key is not in the object
Absent == [t |-> "absent"]

Opt(k, v) == IF v = Absent THEN EmptyDict ELSE (k :> v)

\* isinstance(v, dict)
IsDict(v) == v.t = "dict"

\* isinstance(v, str)
IsStr(v) == v.t = "str"

\* type(v).__name__
PyTypeName(v) == v.t

IsBigInt(v) == v.t = "int" /\ "e" \in DOMAIN v

RECURSIVE Repeat(_, _)
Repeat(c, n) ==
  IF n <= 0 THEN ""
  ELSE LET half == Repeat(c, n \div 2) IN half \o half \o (IF n % 2 = 1 THEN c ELSE "")

\* the decimal digits of n >= 0, padded with zeros on the left to width w
Padded(n, w) == Repeat("0", w - Len(ToString(n))) \o ToString(n)

\* str(10^e + n) for |n| < 10^e
BigIntStr(e, n) ==
  IF n >= 0 THEN "1" \o Padded(n, e)
  ELSE LET w == Len(ToString(-n)) IN Repeat("9", e - w) \o Padded(10^w + n, w)

\* str(h/2) of a float: repr keeps one fractional digit for these values
FloatStr(h) ==
  LET m == IF h < 0 THEN -h ELSE h IN
  (IF h < 0 THEN "-" ELSE "") \o ToString(m \div 2) \o (IF m % 2 = 0 THEN ".0" ELSE ".5")

\* str(v), as an f-string renders the value
PyStr(v) ==
  CASE v.t = "NoneType" -> "None"
    [] v.t = "bool" -> (IF v.b THEN "True" ELSE "False")
    [] v.t = "int" -> (IF IsBigInt(v) THEN BigIntStr(v.e, v.n) ELSE ToString(v.n))
    [] v.t = "float" -> FloatStr(v.h)
    [] v.t = "str" -> v.s
    [] v.t = "list" -> (IF v.items = <<>> THEN "[]" ELSE "[...]")
    [] v.t = "dict" -> (IF v.f = EmptyDict THEN "{}" ELSE "{...}")

\* bool(v): Python truthiness of a JSON value
Truthy(v) ==
  CASE v.t = "NoneType" -> FALSE
    [] v.t = "bool" -> v.b
    [] v.t = "int" -> (IsBigInt(v) \/ v.n # 0)
    [] v.t = "float" -> v.h # 0
    [] v.t = "str" -> v.s # ""
    [] v.t = "list" -> v.items # <<>>
    [] v.t = "dict" -> v.f # EmptyDict

(***************************************************************************)
(* Outcome of a Python call: a returned value or a raised exception.       *)
(***************************************************************************)
Return(v) == [tag |-> "return", value |-> v]
Raise(exc, msg) == [tag |-> "raise", exc |-> exc, msg |-> msg]

Raised(o) == o.tag = "raise"

\* d.get(k, default) on a dict
Get(d, k, default) == IF k \in DOMAIN d.f THEN d.f[k] ELSE default

\* the AttributeError of v.get(...) when v is not a dict
NoGet(v) == Raise("AttributeError", "'" \o PyTypeName(v) \o "' object has no attribute 'get'")

\* the KeyError of d[k] when k is not a key of d
NoKey(k) == Raise("KeyError", "'" \o k \o "'")

HasKey(d, k) == k \in DOMAIN d.f

(***************************************************************************)
(* Responses                                                               *)
(***************************************************************************)
ResultResponse(id, result) == [jsonrpc |-> "2.0", id |-> id, result |-> result]
\* faulty variant of ErrorResponse: an error response also carries a result
ErrorResponse_both(id, code, message) ==
  [jsonrpc |-> "2.0", id |-> id, result |-> PyNone,
   error |-> [code |-> code, message |-> message]]

ErrorResponse(id, code, message) ==
  [jsonrpc |-> "2.0", id |-> id, error |-> [code |-> code, message |-> message]]

IsResponse(r) == "jsonrpc" \in DOMAIN r
IsError(r) == "error" \in DOMAIN r
IsResult(r) == "result" \in DOMAIN r

\* faulty variant of TextBlock: the block is typed by the Python type of its text
TextBlock_str(text) == [type |-> "str", text |-> text]

TextBlock(text) == [type |-> "text", text |-> text]

(***************************************************************************)
(* python-server.py: MCPTestServer                                         *)
(***************************************************************************)
EchoTool ==
  [name |-> "echo", description |-> "Echo back the input text",
   inputSchema |-> [type |-> "object", properties |-> {"text"}, required |-> <<"text">>]]
AddTool ==
  [name |-> "add", description |-> "Add two numbers together",
   inputSchema |-> [type |-> "object", properties |-> {"a", "b"}, required |-> <<"a", "b">>]]
GetTimeTool ==
  [name |-> "get_time", description |-> "Get the current time",
   inputSchema |-> [type |-> "object", properties |-> {}, additionalProperties |-> FALSE]]

\* MCPTestServer.__init__: the fields of the server object
MCPTestServer_init ==
  [server_info |-> [name |-> "python-test-server", version |-> "1.0.0"],
   capabilities |-> [tools |-> [listChanged |-> TRUE]],
   tools |-> <<EchoTool, AddTool, GetTimeTool>>]

\* datetime.datetime.now().isoformat() of the clock reading c
isoformat(c) == "2025-01-01T00:00:0" \o ToString(c)

\* faulty variant of handle_initialize: the protocol version asked for in the
\* request's params is echoed
handle_initialize_echo(srv, request) ==
  IF ~HasKey(request, "id") THEN NoKey("id")
  ELSE
    LET params == Get(request, "params", JDict(EmptyDict))
        version == IF IsDict(params) /\ HasKey(params, "protocolVersion")
                   THEN PyStr(params.f["protocolVersion"]) ELSE "2025-03-26"
    IN Return(ResultResponse(request.f["id"],
                [protocolVersion |-> version,
                 capabilities |-> srv.capabilities,
                 serverInfo |-> srv.server_info]))

handle_initialize(srv, request) ==
  IF ~HasKey(request, "id") THEN NoKey("id")
  ELSE Return(ResultResponse(request.f["id"],
                [protocolVersion |-> "2025-03-26",
                 capabilities |-> srv.capabilities,
                 serverInfo |-> srv.server_info]))

\* faulty variant of handle_list_tools: the list is cut when the request
\* carries params
handle_list_tools_cut(srv, request) ==
  IF ~HasKey(request, "id") THEN NoKey("id")
  ELSE Return(ResultResponse(request.f["id"],
                [tools |-> IF HasKey(request, "params") THEN Tail(srv.tools) ELSE srv.tools]))

handle_list_tools(srv, request) ==
  IF ~HasKey(request, "id") THEN NoKey("id")
  ELSE Return(ResultResponse(request.f["id"], [tools |-> srv.tools]))

\* a + b of two JSON-decoded values
IsNum(v) == v.t \in {"int", "bool", "float"}
NumVal(v) == IF v.t = "bool" THEN (IF v.b THEN 1 ELSE 0) ELSE v.n
\* float(v) of an int or bool, in halves; an int of 10^309 or more has no float
Halves(v) == IF v.t = "float" THEN v.h ELSE 2 * NumVal(v)
TooLargeForFloat(v) == IsBigInt(v) /\ v.e > 308
\* int + int, exact (at most one operand beyond the model's integers)
IntAdd(a, b) ==
  IF IsBigInt(a) THEN JBigInt(a.e, a.n + NumVal(b))
  ELSE IF IsBigInt(b) THEN JBigInt(b.e, b.n + NumVal(a))
  ELSE JNum(NumVal(a) + NumVal(b))
PyAdd(a, b) ==
  IF IsNum(a) /\ IsNum(b) THEN
    IF a.t # "float" /\ b.t # "float" THEN Return(IntAdd(a, b))
    ELSE IF TooLargeForFloat(a) \/ TooLargeForFloat(b)
      THEN Raise("OverflowError", "int too large to convert to float")
    ELSE Return(JFloat(Halves(a) + Halves(b)))
  ELSE IF a.t = "str" /\ b.t = "str" THEN Return(JStr(a.s \o b.s))
  ELSE IF a.t = "list" /\ b.t = "list" THEN Return(JList(a.items \o b.items))
  ELSE IF a.t \in {"str", "list"}
    THEN Raise("TypeError", "can only concatenate " \o a.t \o " (not \"" \o PyTypeName(b)
                            \o "\") to " \o a.t)
  ELSE Raise("TypeError", "unsupported operand type(s) for +: '" \o PyTypeName(a)
                          \o "' and '" \o PyTypeName(b) \o "'")

\* the body of the try block of handle_call_tool (lines 100-136)
call_tool_body(request, tool_name, arguments, now) ==
  LET Wrap(content) ==
        IF ~HasKey(request, "id") THEN NoKey("id")
        ELSE Return(ResultResponse(request.f["id"], [content |-> content]))
  IN
  IF tool_name = JStr("echo") THEN
    IF ~IsDict(arguments) THEN NoGet(arguments)
    ELSE Wrap(<<TextBlock("Echo: " \o PyStr(Get(arguments, "text", JStr(""))))>>)
  ELSE IF tool_name = JStr("add") THEN
    IF ~IsDict(arguments) THEN NoGet(arguments)
    ELSE LET sum == PyAdd(Get(arguments, "a", JNum(0)), Get(arguments, "b", JNum(0)))
         IN IF Raised(sum) THEN sum
            ELSE Wrap(<<TextBlock("Result: " \o PyStr(sum.value))>>)
  ELSE IF tool_name = JStr("get_time") THEN
    Wrap(<<TextBlock("Current time: " \o isoformat(now))>>)
  ELSE
    IF ~HasKey(request, "id") THEN NoKey("id")
    ELSE Return(ErrorResponse(request.f["id"], -32601, "Unknown tool: " \o PyStr(tool_name)))

\* faulty variant of handle_call_tool: no except clause around the tool bodies
handle_call_tool_notry(srv, request, now) ==
  LET params == Get(request, "params", JDict(EmptyDict)) IN
  IF ~IsDict(params) THEN NoGet(params)
  ELSE call_tool_body(request, Get(params, "name", PyNone),
                      Get(params, "arguments", JDict(EmptyDict)), now)

handle_call_tool(srv, request, now) ==
  LET params == Get(request, "params", JDict(EmptyDict)) IN
  IF ~IsDict(params) THEN NoGet(params)
  ELSE
    LET tool_name == Get(params, "name", PyNone)
        arguments == Get(params, "arguments", JDict(EmptyDict))
        body == call_tool_body(request, tool_name, arguments, now)
    IN IF ~Raised(body) THEN body
       \* except Exception as e: the handler subscripts request["id"] again
       ELSE IF ~HasKey(request, "id") THEN NoKey("id")
       ELSE Return(ErrorResponse(request.f["id"], -32603,
                                 "Tool execution error: " \o body.msg))

\* faulty variant of MCPTestServer_handle_request: a tools/call is served only
\* right after an initialize
MCPTestServer_handle_request_gated(srv, request, now) ==
  IF ~IsDict(request) THEN NoGet(request)
  ELSE
    LET method == Get(request, "method", PyNone) IN
    IF method = JStr("initialize") THEN handle_initialize(srv, request)
    ELSE IF method = JStr("tools/list") THEN handle_list_tools(srv, request)
    ELSE IF method = JStr("tools/call") THEN
      IF last.unit.kind = "json" /\ IsDict(last.unit.value)
           /\ Get(last.unit.value, "method", PyNone) = JStr("initialize")
        THEN handle_call_tool(srv, request, now)
        ELSE Return(ErrorResponse(Get(request, "id", PyNone), -32002,
                                  "Server not initialized"))
    ELSE Return(ErrorResponse(Get(request, "id", PyNone), -32601,
                              "Method not found: " \o PyStr(method)))

\* MCPTestServer.handle_request (lines 147-165)
MCPTestServer_handle_request(srv, request, now) ==
  IF ~IsDict(request) THEN NoGet(request)
  ELSE
    LET method == Get(request, "method", PyNone) IN
    IF method = JStr("initialize") THEN handle_initialize(srv, request)
    ELSE IF method = JStr("tools/list") THEN handle_list_tools(srv, request)
    ELSE IF method = JStr("tools/call") THEN handle_call_tool(srv, request, now)
    ELSE Return(ErrorResponse(Get(request, "id", PyNone), -32601,
                              "Method not found: " \o PyStr(method)))

(***************************************************************************)
(* websocket_mcp_server.py: WebSocketMCPServer                             *)
(***************************************************************************)
\* WebSocketMCPServer.__init__: the fields of the server object
WebSocketMCPServer_init == [capabilities |-> [tools |-> EmptyDict]]

SearchTool ==
  [name |-> "websocket_search",
   description |-> "Search for information via WebSocket MCP server",
   inputSchema |-> [type |-> "object", properties |-> {"query"}, required |-> <<"query">>,
                    additionalProperties |-> FALSE]]
TimeTool ==
  [name |-> "websocket_time",
   description |-> "Get current time from WebSocket server",
   inputSchema |-> [type |-> "object", properties |-> {}, additionalProperties |-> FALSE]]

\* datetime.now().strftime('%Y-%m-%d %H:%M:%S') of the clock reading c
strftime(c) == "2025-01-01 00:00:0" \o ToString(c)

\* faulty variant of ws_call_tool: websocket_search tests only that the query
\* key is present, so an empty query is searched for
ws_call_tool_keycheck(params, req_id, now) ==
  IF ~IsDict(params) THEN NoGet(params)
  ELSE
    LET tool_name == Get(params, "name", PyNone)
        arguments == Get(params, "arguments", JDict(EmptyDict))
        Wrap(result_text) ==
          Return(ResultResponse(req_id, [content |-> <<TextBlock(result_text)>>]))
    IN
    IF ~IsDict(arguments) THEN
      Return(ErrorResponse(req_id, -32602,
               "Invalid parameters: arguments must be a JSON object, got <class '"
               \o PyTypeName(arguments) \o "'>"))
    ELSE IF tool_name = JStr("websocket_search") THEN
      LET query == Get(arguments, "query", JStr("")) IN
      IF ~HasKey(arguments, "query") THEN
        Return(ErrorResponse(req_id, -32602,
                 "Invalid parameters: 'query' is required for websocket_search"))
      ELSE Wrap("WEBSOCKET MCP SEARCH for '" \o PyStr(query)
                \o "': Found comprehensive results via WebSocket connection. "
                \o "Server located relevant information about " \o PyStr(query)
                \o " from distributed sources. [Response from WebSocket MCP Server]")
    ELSE IF tool_name = JStr("websocket_time") THEN
      Wrap("WEBSOCKET MCP TIME: " \o strftime(now)
           \o " [Timestamp from WebSocket MCP Server]")
    ELSE
      Return(ErrorResponse(req_id, -32601,
               "Method not found: Unknown tool '" \o PyStr(tool_name) \o "'"))

\* the tools/call branch of WebSocketMCPServer.handle_request (lines 79-131).
\* The result texts are the source's without their leading pictograph, which
\* is outside the character set of TLA+ strings.
ws_call_tool(params, req_id, now) ==
  IF ~IsDict(params) THEN NoGet(params)
  ELSE
    LET tool_name == Get(params, "name", PyNone)
        arguments == Get(params, "arguments", JDict(EmptyDict))
        Wrap(result_text) ==
          Return(ResultResponse(req_id, [content |-> <<TextBlock(result_text)>>]))
    IN
    IF ~IsDict(arguments) THEN
      Return(ErrorResponse(req_id, -32602,
               "Invalid parameters: arguments must be a JSON object, got <class '"
               \o PyTypeName(arguments) \o "'>"))
    ELSE IF tool_name = JStr("websocket_search") THEN
      LET query == Get(arguments, "query", JStr("")) IN
      IF ~Truthy(query) THEN
        Return(ErrorResponse(req_id, -32602,
                 "Invalid parameters: 'query' is required for websocket_search"))
      ELSE Wrap("WEBSOCKET MCP SEARCH for '" \o PyStr(query)
                \o "': Found comprehensive results via WebSocket connection. "
                \o "Server located relevant information about " \o PyStr(query)
                \o " from distributed sources. [Response from WebSocket MCP Server]")
    ELSE IF tool_name = JStr("websocket_time") THEN
      Wrap("WEBSOCKET MCP TIME: " \o strftime(now)
           \o " [Timestamp from WebSocket MCP Server]")
    ELSE
      Return(ErrorResponse(req_id, -32601,
               "Method not found: Unknown tool '" \o PyStr(tool_name) \o "'"))

\* faulty variant of WebSocketMCPServer_handle_request: the tool name is
\* looked up before the arguments are tested to be an object
WebSocketMCPServer_handle_request_namefirst(srv, request, now) ==
  IF ~IsDict(request) THEN NoGet(request)
  ELSE
    LET method == Get(request, "method", PyNone)
        params == Get(request, "params", JDict(EmptyDict))
        req_id == Get(request, "id", PyNone)
    IN
    IF method = JStr("initialize") THEN
      Return(ResultResponse(req_id,
               [protocolVersion |-> "2024-11-05",
                capabilities |-> srv.capabilities,
                serverInfo |-> [name |-> "websocket-demo-mcp-server",
                                version |-> "1.0.0"]]))
    ELSE IF method = JStr("tools/list") THEN
      Return(ResultResponse(req_id, [tools |-> <<SearchTool, TimeTool>>]))
    ELSE IF method = JStr("tools/call") THEN
      IF IsDict(params)
           /\ Get(params, "name", PyNone) \notin {JStr("websocket_search"), JStr("websocket_time")}
        THEN Return(ErrorResponse(req_id, -32601,
                      "Method not found: Unknown tool '"
                      \o PyStr(Get(params, "name", PyNone)) \o "'"))
        ELSE ws_call_tool(params, req_id, now)
    ELSE IF method = JStr("notifications/initialized") THEN Return(PyNone)
    ELSE Return(ResultResponse(req_id, EmptyDict))

\* WebSocketMCPServer.handle_request (lines 23-142)
WebSocketMCPServer_handle_request(srv, request, now) ==
  IF ~IsDict(request) THEN NoGet(request)
  ELSE
    LET method == Get(request, "method", PyNone)
        params == Get(request, "params", JDict(EmptyDict))
        req_id == Get(request, "id", PyNone)
    IN
    IF method = JStr("initialize") THEN
      Return(ResultResponse(req_id,
               [protocolVersion |-> "2024-11-05",
                capabilities |-> srv.capabilities,
                serverInfo |-> [name |-> "websocket-demo-mcp-server",
                                version |-> "1.0.0"]]))
    ELSE IF method = JStr("tools/list") THEN
      Return(ResultResponse(req_id, [tools |-> <<SearchTool, TimeTool>>]))
    ELSE IF method = JStr("tools/call") THEN ws_call_tool(params, req_id, now)
    ELSE IF method = JStr("notifications/initialized") THEN Return(PyNone)
    ELSE Return(ResultResponse(req_id, EmptyDict))

(***************************************************************************)
(* Message units on the wire.  A unit is what one read of the transport    *)
(* delivers: a text whose content is a JSON value ("json") or is not JSON  *)
(* ("malformed"), a blank line, a binary frame, the end of the stream, or  *)
(* a failure of the read itself.                                           *)
(***************************************************************************)
Unit(kind, value) == [kind |-> kind, value |-> value]

\* json.loads(text)
json_loads(unit) ==
  IF unit.kind = "json" THEN Return(unit.value)
  ELSE Raise("JSONDecodeError", "Expecting value: line 1 column 1 (char 0)")

\* json.dumps(response): the text unit written to the transport
json_dumps(response) == Unit("json", response)

\* faulty variant of Continue: print without flush, the line stays in the buffer
Continue_unflushed(written) ==
  [state |-> "RUNNING", exit |-> "", written |-> <<>>, failed |-> FALSE, exc |-> ""]

\* the pass ends with what it wrote and the loop goes on
Continue(written) ==
  [state |-> "RUNNING", exit |-> "", written |-> written, failed |-> FALSE, exc |-> ""]

\* faulty variant of Stop: the loop is entered again after it was left
Stop_restart(path, exc, failed) ==
  [state |-> "READY", exit |-> path, written |-> <<>>, failed |-> failed, exc |-> exc]

Stop(path, exc, failed) ==
  [state |-> "TERMINATED", exit |-> path, written |-> <<>>, failed |-> failed, exc |-> exc]

\* faulty variant of stripped_empty: blank lines are not skipped
stripped_empty_never(line) == FALSE

\* line = line.strip(); not line
stripped_empty(line) == line.kind = "blank"

\* faulty variant of is_text: binary frames are handled like text frames
is_text_any(message) == TRUE

\* isinstance(message, str)
is_text(message) == message.kind # "binary"

\* faulty variant of run_stdio: the JSONDecodeError handler leaves the loop
\* after its response
run_stdio_break(srv, line, stdoutOk, now) ==
  LET WriteLine(response) ==
        IF stdoutOk THEN Continue(<<json_dumps(response)>>)
        ELSE Stop("error", "BrokenPipeError", TRUE)
  IN
  IF line.kind = "readerror" THEN Stop("error", "OSError", TRUE)
  ELSE IF line.kind = "eof" THEN Stop("eof", "", FALSE)
  ELSE IF stripped_empty(line) THEN Continue(<<>>)
  ELSE
    LET parsed == json_loads(line) IN
    IF Raised(parsed) THEN
      [WriteLine(ErrorResponse(PyNone, -32700, "Parse error: " \o parsed.msg))
         EXCEPT !.state = "TERMINATED", !.exit = "eof"]
    ELSE
      LET response == MCPTestServer_handle_request(srv, parsed.value, now) IN
      IF Raised(response) THEN Stop("error", response.exc, FALSE)
      ELSE WriteLine(response.value)

\* one pass of the while loop of MCPTestServer.run_stdio (lines 171-210)
run_stdio(srv, line, stdoutOk, now) ==
  LET WriteLine(response) ==
        IF stdoutOk THEN Continue(<<json_dumps(response)>>)
        ELSE Stop("error", "BrokenPipeError", TRUE)
  IN
  IF line.kind = "readerror" THEN Stop("error", "OSError", TRUE)
  ELSE IF line.kind = "eof" THEN Stop("eof", "", FALSE)
  ELSE IF stripped_empty(line) THEN Continue(<<>>)
  ELSE
    LET parsed == json_loads(line) IN
    IF Raised(parsed) THEN
      WriteLine(ErrorResponse(PyNone, -32700, "Parse error: " \o parsed.msg))
    ELSE
      LET response == MCPTestServer_handle_request(srv, parsed.value, now) IN
      IF Raised(response) THEN Stop("error", response.exc, FALSE)
      ELSE WriteLine(response.value)

\* faulty variant of send_failed: the handler of the failed send only logs it,
\* and the loop goes on to the next frame
send_failed_swallowed ==
  [state |-> "RUNNING", exit |-> "", written |-> <<>>, failed |-> TRUE,
   exc |-> "ConnectionClosed"]

\* websocket.send raises ConnectionClosed: "except Exception" logs it and
\* sends an error response, that send raises too, and the exception leaves
\* the loop to "except websockets.exceptions.ConnectionClosed" (lines 176-189)
send_failed == Stop("disconnected", "ConnectionClosed", TRUE)

\* bool(response) of what handle_request returned: None or a non-empty dict
ResponseTruthy(response) == IF IsResponse(response) THEN TRUE ELSE Truthy(response)

\* faulty variant of handle_client: no "except Exception" inside the loop, an
\* exception of handle_request ends the connection
handle_client_noexcept(srv, message, sendOk, now) ==
  LET Send(response) ==
        IF sendOk THEN Continue(<<json_dumps(response)>>)
        ELSE send_failed
  IN
  IF message.kind = "readerror" THEN Stop("disconnected", "ConnectionClosed", TRUE)
  ELSE IF message.kind = "eof" THEN Stop("eof", "", FALSE)
  ELSE IF ~is_text(message) THEN Continue(<<>>)
  ELSE
    LET parsed == json_loads(message) IN
    IF Raised(parsed) THEN Send(ErrorResponse(PyNone, -32700, "Parse error"))
    ELSE
      LET response == WebSocketMCPServer_handle_request(srv, parsed.value, now) IN
      IF Raised(response) THEN Stop("error", response.exc, FALSE)
      ELSE IF ResponseTruthy(response.value) THEN Send(response.value)
      ELSE Continue(<<>>)

\* one pass of the async for loop of WebSocketMCPServer.handle_client
\* (lines 148-191).  A send fails when the connection is gone, and then every
\* later send fails too.
handle_client(srv, message, sendOk, now) ==
  LET Send(response) ==
        IF sendOk THEN Continue(<<json_dumps(response)>>)
        ELSE send_failed
  IN
  IF message.kind = "readerror" THEN Stop("disconnected", "ConnectionClosed", TRUE)
  ELSE IF message.kind = "eof" THEN Stop("eof", "", FALSE)
  ELSE IF ~is_text(message) THEN Continue(<<>>)
  ELSE
    LET parsed == json_loads(message) IN
    IF Raised(parsed) THEN Send(ErrorResponse(PyNone, -32700, "Parse error"))
    ELSE
      LET response == WebSocketMCPServer_handle_request(srv, parsed.value, now) IN
      IF Raised(response) THEN
        Send(ErrorResponse(PyNone, -32603, "Internal error: " \o response.msg))
      ELSE IF ResponseTruthy(response.value) THEN
        \* a failed send is caught by "except Exception", whose own send fails
        Send(response.value)
      ELSE Continue(<<>>)

(***************************************************************************)
(* The inputs: the message units a client can put on the wire.             *)
(***************************************************************************)
Clock == 0..MaxClock

Ids == {Absent, PyNone, JStr("1")} \cup {JNum(i) : i \in 1..MaxId}

OtherMethods ==
  {Absent, JStr("initialize"), JStr("tools/list"), JStr("notifications/initialized"),
   JStr("notifications/cancelled"), JStr("resources/list")}

NonDictValues == {PyNone, JStr("x"), JNum(5), JList(<<>>), JBool(TRUE)}

CatalogNames == {"echo", "add", "get_time", "websocket_search", "websocket_time"}
ToolNames == {Absent, JStr("missing_tool")} \cup {JStr(n) : n \in CatalogNames}

AddArgs ==
  {JDict(Opt("a", a) @@ Opt("b", b)) :
     a \in {Absent, JNum(-1), JStr("x"), JFloat(3), JBigInt(400, 0)},
     b \in {Absent, JNum(2), PyNone, JFloat(-1)}}
QueryArgs ==
  {JDict(EmptyDict)} \cup {JDict("query" :> q) : q \in {JStr(""), JStr("q"), JNum(0)}}
TextArgs == {JDict("text" :> JStr("hi"))}

CallParams ==
  {Absent, PyNone, JList(<<>>)}
  \cup {JDict(Opt("name", n) @@ Opt("arguments", a)) :
          n \in ToolNames, a \in {Absent} \cup NonDictValues}
  \cup {JDict(Opt("name", n) @@ Opt("arguments", a)) :
          n \in {JStr("echo"), JStr("missing_tool")}, a \in TextArgs}
  \cup {JDict(Opt("name", n) @@ Opt("arguments", a)) :
          n \in {JStr("add")}, a \in AddArgs}
  \cup {JDict(Opt("name", n) @@ Opt("arguments", a)) :
          n \in {JStr("websocket_search"), JStr("missing_tool")}, a \in QueryArgs}

MkRequest(id, method, params) ==
  JDict(("jsonrpc" :> JStr("2.0")) @@ Opt("id", id) @@ Opt("method", method)
        @@ Opt("params", params))

InitializeParams == {JDict("protocolVersion" :> JStr("1999-01-01"))}

\* the calls sent with every id: every name, without arguments or with null
CoreCallParams ==
  {Absent, PyNone, JList(<<>>)}
  \cup {JDict(Opt("name", n) @@ Opt("arguments", a)) :
          n \in ToolNames, a \in {Absent, PyNone}}
  \cup {JDict(Opt("name", n) @@ Opt("arguments", a)) :
          n \in {JStr("echo"), JStr("missing_tool")}, a \in TextArgs}

\* the ids the other calls are sent with: none, and a number
CallIds == {Absent, JNum(MaxId)}

Requests ==
  {MkRequest(id, m, p) : id \in Ids, m \in OtherMethods, p \in {Absent, PyNone}}
  \cup {MkRequest(id, JStr("initialize"), p) : id \in Ids, p \in InitializeParams}
  \cup {MkRequest(id, JStr("tools/call"), p) : id \in Ids, p \in CoreCallParams}
  \cup {MkRequest(id, JStr("tools/call"), p) : id \in CallIds, p \in CallParams}

NoValue == PyNone
TextUnits == {Unit("malformed", NoValue)} \cup {Unit("json", v) : v \in Requests \cup NonDictValues}
EndUnits == {Unit("eof", NoValue), Unit("readerror", NoValue)}
StdioUnits == EndUnits \cup {Unit("blank", NoValue)} \cup TextUnits
WsUnits == EndUnits \cup {Unit("binary", NoValue)} \cup TextUnits

(***************************************************************************)
(* The session                                                             *)
(***************************************************************************)
NoStep ==
  [unit |-> Unit("none", NoValue), pre |-> "READY", written |-> <<>>,
   failed |-> FALSE, exc |-> ""]

IsRequestOf(unit, method) ==
  /\ unit.kind = "json"
  /\ IsDict(unit.value)
  /\ Get(unit.value, "method", PyNone) = JStr(method)

\* the tool lists that the step's tools/list responses carried, in order
ListResults(unit, written) ==
  IF IsRequestOf(unit, "tools/list") /\ written # <<>> /\ IsResult(written[1].value)
  THEN <<written[1].value.result.tools>>
  ELSE <<>>

\* what kind of unit it was: its method when it is a request object
Summary(unit) ==
  IF unit.kind = "json" /\ IsDict(unit.value)
  THEN PyStr(Get(unit.value, "method", PyNone))
  ELSE unit.kind

\* datetime.now() is evaluated only in the get_time / websocket_time branches;
\* for every other unit the clock reading is not an input of the step
ReadsClock(unit) ==
  /\ IsRequestOf(unit, "tools/call")
  /\ IsDict(Get(unit.value, "params", JDict(EmptyDict)))
  /\ Get(Get(unit.value, "params", JDict(EmptyDict)), "name", PyNone)
       \in {JStr("get_time"), JStr("websocket_time")}
ClockFor(unit) == IF ReadsClock(unit) THEN Clock ELSE {0}

NoItem == [seq |-> 0, unit |-> Unit("none", NoValue)]

\* nothing sent, nothing read, nothing written
SeqIdle ==
  /\ pc = "read"
  /\ inbox = <<>>
  /\ cur = NoItem
  /\ pending = <<>>
  /\ wire = <<>>
  /\ arrived = 0
  /\ closed = FALSE
  /\ taken = <<>>

\* the connections websockets.serve will hand to handle_client
Sessions == {"s1", "s2"}

MultiIdle ==
  /\ mstate = [s \in Sessions |-> "READY"]
  /\ got = [s \in Sessions |-> <<>>]
  /\ mpend = [s \in Sessions |-> <<>>]
  /\ sent = [s \in Sessions |-> <<>>]

Init ==
  /\ server \in {"stdio", "ws"}
  /\ self = IF server = "stdio" THEN MCPTestServer_init ELSE WebSocketMCPServer_init
  /\ state = "READY"
  /\ exitPath = ""
  /\ last = NoStep
  /\ prevKind = "none"
  /\ listed = <<>>
  /\ remaining = MaxUnits
  /\ SeqIdle
  /\ MultiIdle

\* run_stdio / handle_client is entered
StartSession ==
  /\ state = "READY"
  /\ state' = "RUNNING"
  /\ UNCHANGED <<multiVars, server, self, exitPath, last, prevKind, listed, remaining, seqVars>>

Apply(unit, r) ==
  /\ state' = r.state
  /\ exitPath' = r.exit
  /\ last' = [unit |-> unit, pre |-> state, written |-> r.written,
              failed |-> r.failed, exc |-> r.exc]
  /\ prevKind' = Summary(last.unit)
  /\ listed' = listed \o ListResults(unit, r.written)
  /\ remaining' = IF unit \in EndUnits THEN remaining ELSE remaining - 1
  /\ UNCHANGED <<multiVars, server, self, seqVars>>

RunStdio ==
  /\ server = "stdio"
  /\ state = "RUNNING"
  /\ \E line \in StdioUnits, stdoutOk \in BOOLEAN : \E now \in ClockFor(line) :
       /\ line \notin EndUnits => remaining > 0
       /\ Apply(line, run_stdio(self, line, stdoutOk, now))

HandleClient ==
  /\ server = "ws"
  /\ state = "RUNNING"
  /\ \E message \in WsUnits, sendOk \in BOOLEAN : \E now \in ClockFor(message) :
       /\ message \notin EndUnits => remaining > 0
       /\ Apply(message, handle_client(self, message, sendOk, now))

Next == StartSession \/ RunStdio \/ HandleClient

Spec == Init /\ [][Next]_vars

TypeOK ==
  /\ server \in {"stdio", "ws"}
  /\ state \in {"READY", "RUNNING", "TERMINATED"}
  /\ exitPath \in {"", "eof", "error", "disconnected"}
  /\ remaining \in 0..MaxUnits
  /\ Cardinality(Requests) > 0

(***************************************************************************)
(* The last step, as the properties below read it                          *)
(***************************************************************************)
LastRequest == last.unit.value
LastIsRequest == last.unit.kind = "json" /\ IsDict(LastRequest)
LastHasId == LastIsRequest /\ HasKey(LastRequest, "id")
LastMethod == Get(LastRequest, "method", PyNone)
LastParams == Get(LastRequest, "params", JDict(EmptyDict))
LastIsCall == LastIsRequest /\ LastMethod = JStr("tools/call") /\ IsDict(LastParams)
LastName == Get(LastParams, "name", PyNone)
LastArguments == Get(LastParams, "arguments", JDict(EmptyDict))
Written(i) == last.written[i].value
Catalog == IF server = "stdio" THEN {"echo", "add", "get_time"}
           ELSE {"websocket_search", "websocket_time"}
NotificationMethods == {JStr("notifications/initialized"), JStr("notifications/cancelled")}
KnownMethods == {JStr("initialize"), JStr("tools/list"), JStr("tools/call")}

\* C1: a request object with no id is never answered, whatever its method
\* and whatever the outcome of its handler.
C1_NotificationNeverAnswered ==
  (LastIsRequest /\ ~LastHasId) => last.written = <<>>

\* C2: every response to a request that carried an id carries that id, and a
\* response carries id = null only when the input could not be parsed into a
\* request (or the request's own id was null).
C2_ResponseEchoesId ==
  \A i \in 1..Len(last.written) :
    /\ LastHasId => Written(i).id = LastRequest.f["id"]
    /\ Written(i).id = PyNone =>
         \/ ~LastIsRequest
         \/ (LastHasId /\ LastRequest.f["id"] = PyNone)

\* C3: a unit that is not JSON is answered by exactly one response, with
\* error code -32700 and id null, and the session keeps running: the unit
\* after it is read in state RUNNING and handled as the loop handles it on
\* a fresh session.
C3_ParseErrorAnsweredSessionContinues ==
  /\ (last.unit.kind = "malformed" /\ ~last.failed) =>
       /\ Len(last.written) = 1
       /\ IsError(Written(1)) /\ ~IsResult(Written(1))
       /\ Written(1).error.code = -32700
       /\ Written(1).id = PyNone
       /\ state = "RUNNING"
  /\ (prevKind = "malformed" /\ last.unit.kind = "json") =>
       /\ last.pre = "RUNNING"
       /\ \E ok \in BOOLEAN, now \in Clock :
            LET r == IF server = "stdio"
                     THEN run_stdio(MCPTestServer_init, last.unit, ok, now)
                     ELSE handle_client(WebSocketMCPServer_init, last.unit, ok, now)
            IN r.written = last.written /\ r.state = state /\ r.failed = last.failed

\* C3 witness: an initialize call that follows a malformed unit got its result
C3_Witness ==
  /\ prevKind = "malformed"
  /\ LastHasId /\ LastMethod = JStr("initialize")
  /\ Len(last.written) = 1 /\ IsResult(Written(1))
  /\ state = "RUNNING"

\* C4: the session terminates only on end of stream or on a failure of the
\* transport, never because of the content of a message unit.
C4_ContentNeverTerminates ==
  state = "TERMINATED" => (last.unit \in EndUnits \/ last.failed)

\* C5: a tools/call with an id that names a tool outside the server's catalog
\* is answered by error -32601 with message "Unknown tool: {name}".
C5_UnknownTool ==
  (LastIsCall /\ LastHasId /\ IsStr(LastName) /\ LastName.s \notin Catalog /\ ~last.failed) =>
    /\ Len(last.written) = 1
    /\ IsError(Written(1))
    /\ Written(1).error.code = -32601
    /\ Written(1).error.message = "Unknown tool: " \o LastName.s

\* C6: a call with an id whose method is none of initialize, tools/list,
\* tools/call, notifications/* is answered by error -32601 with message
\* "Method not found: {method}" and no result.
C6_MethodNotFound ==
  (LastHasId /\ IsStr(LastMethod) /\ LastMethod \notin KnownMethods
     /\ LastMethod \notin NotificationMethods /\ ~last.failed) =>
    /\ Len(last.written) = 1
    /\ IsError(Written(1)) /\ ~IsResult(Written(1))
    /\ Written(1).error.code = -32601
    /\ Written(1).error.message = "Method not found: " \o LastMethod.s

\* C7: a tools/call of a catalog tool whose arguments member is present and
\* is not an object is answered by error -32602.
C7_NonObjectArguments ==
  (LastIsCall /\ LastHasId /\ IsStr(LastName) /\ LastName.s \in Catalog
     /\ HasKey(LastParams, "arguments") /\ ~IsDict(LastArguments) /\ ~last.failed) =>
    /\ Len(last.written) = 1
    /\ IsError(Written(1))
    /\ Written(1).error.code = -32602

\* C8: a request of the notifications/* family is never answered, with or
\* without an id.
C8_NotificationFamilySilent ==
  (LastIsRequest /\ LastMethod \in NotificationMethods) => last.written = <<>>

\* C9: a request with an id, read by a session whose transport does not
\* fail, gets exactly one response.
C9_ExactlyOneResponse ==
  (LastHasId /\ ~last.failed) => Len(last.written) = 1

\* C10: within a session every tools/list result is the same ordered
\* sequence of descriptors, whatever was processed before it.
C10_ToolsListStable ==
  \A i, j \in 1..Len(listed) : listed[i] = listed[j]

\* C10 witness: a second tools/list was answered right after a tools/call
C10_Witness ==
  /\ Len(listed) >= 2
  /\ prevKind = "tools/call"
  /\ IsRequestOf(last.unit, "tools/list")
  /\ Len(last.written) = 1

\* C11: in the WebSocket server a websocket_search call whose arguments object
\* has no query key or an empty-string query is answered by error -32602 whose
\* message names the query parameter, with no result; with a non-empty string
\* query it is answered by a result whose single text block embeds the query.
C11_SearchQueryRequired ==
  (server = "ws" /\ LastIsCall /\ LastName = JStr("websocket_search")
     /\ IsDict(LastArguments) /\ ~last.failed) =>
    LET query == Get(LastArguments, "query", Absent) IN
    /\ Len(last.written) = 1
    /\ (query \in {Absent, JStr("")}) =>
         /\ IsError(Written(1)) /\ ~IsResult(Written(1))
         /\ Written(1).error.code = -32602
         /\ Written(1).error.message
              = "Invalid parameters: 'query' is required for websocket_search"
    /\ (query # Absent /\ IsStr(query) /\ query # JStr("")) =>
         /\ IsResult(Written(1)) /\ ~IsError(Written(1))
         /\ Len(Written(1).result.content) = 1
         /\ Written(1).result.content[1].type = "text"
         /\ Written(1).result.content[1].text
              = "WEBSOCKET MCP SEARCH for '" \o query.s
                \o "': Found comprehensive results via WebSocket connection. "
                \o "Server located relevant information about " \o query.s
                \o " from distributed sources. [Response from WebSocket MCP Server]"

\* C11 witness: a websocket_search call with an empty query was refused
C11_Witness ==
  /\ server = "ws" /\ LastIsCall /\ LastName = JStr("websocket_search")
  /\ IsDict(LastArguments) /\ Get(LastArguments, "query", Absent) = JStr("")
  /\ Len(last.written) = 1 /\ IsError(Written(1))

\* C12: every initialize call is answered by a result, never an error, that
\* carries the fixed payload of its server, whatever its params and whatever
\* the session processed before.
C12_InitializeFixedPayload ==
  (LastHasId /\ LastMethod = JStr("initialize") /\ ~last.failed) =>
    /\ Len(last.written) = 1
    /\ IsResult(Written(1)) /\ ~IsError(Written(1))
    /\ Written(1).result =
         IF server = "stdio"
         THEN [protocolVersion |-> "2025-03-26",
               capabilities |-> [tools |-> [listChanged |-> TRUE]],
               serverInfo |-> [name |-> "python-test-server", version |-> "1.0.0"]]
         ELSE [protocolVersion |-> "2024-11-05",
               capabilities |-> [tools |-> EmptyDict],
               serverInfo |-> [name |-> "websocket-demo-mcp-server", version |-> "1.0.0"]]

\* C12 witness: a second initialize, with params of its own, was answered
C12_Witness ==
  /\ prevKind = "initialize"
  /\ LastHasId /\ LastMethod = JStr("initialize")
  /\ HasKey(LastRequest, "params") /\ IsDict(LastParams)
  /\ Len(last.written) = 1 /\ IsResult(Written(1))

\* a JSON number (bool is not one)
IsNumber(v) == v.t \in {"int", "float"}

\* C13: in the stdio server an add call with numeric arguments a and b (a
\* missing one counts as 0) succeeds with exactly one text block, whose text
\* is "Result: " followed by the rendering of a+b.
C13_AddNumbers ==
  LET a == Get(LastArguments, "a", JNum(0))
      b == Get(LastArguments, "b", JNum(0))
  IN
  (server = "stdio" /\ LastIsCall /\ LastHasId /\ LastName = JStr("add")
     /\ IsDict(LastArguments) /\ IsNumber(a) /\ IsNumber(b) /\ ~last.failed) =>
    /\ Len(last.written) = 1
    /\ IsResult(Written(1)) /\ ~IsError(Written(1))
    /\ Len(Written(1).result.content) = 1
    /\ Written(1).result.content[1].type = "text"
    /\ ~Raised(PyAdd(a, b))
    /\ Written(1).result.content[1].text = "Result: " \o PyStr(PyAdd(a, b).value)

\* the exception, if any, that the tool body of the last stdio call raised
LastBody == call_tool_body(LastRequest, LastName, LastArguments, 0)

\* C14: an exception raised while a tool body executes does not escape the
\* dispatcher: the call is answered by error -32603 with message
\* "Tool execution error: {detail}" and the request's id, and the session
\* keeps running.
C14_ToolExceptionContained ==
  (server = "stdio" /\ LastIsCall /\ LastHasId /\ Raised(LastBody) /\ ~last.failed) =>
    /\ Len(last.written) = 1
    /\ IsError(Written(1)) /\ ~IsResult(Written(1))
    /\ Written(1).error.code = -32603
    /\ Written(1).error.message = "Tool execution error: " \o LastBody.msg
    /\ Written(1).id = LastRequest.f["id"]
    /\ state = "RUNNING"

\* C14 witness: add of a string and a number was answered by the error
C14_Witness ==
  /\ server = "stdio" /\ LastIsCall /\ LastHasId /\ LastName = JStr("add")
  /\ Raised(LastBody) /\ LastBody.exc = "TypeError"
  /\ Len(last.written) = 1 /\ IsError(Written(1))
  /\ state = "RUNNING"

\* C15: every outbound message has jsonrpc = "2.0", an id member, and exactly
\* one of result and error.
C15_ResponseShape ==
  \A i \in 1..Len(last.written) :
    /\ IsResponse(Written(i))
    /\ Written(i).jsonrpc = "2.0"
    /\ "id" \in DOMAIN Written(i)
    /\ IsResult(Written(i)) # IsError(Written(i))

\* C15 witness: an error response was written
C15_Witness ==
  /\ Len(last.written) = 1
  /\ IsError(Written(1)) /\ ~IsResult(Written(1))

\* C16: every successful tools/call response has a result.content with at
\* least one block, and every block has type "text".
C16_ContentBlocks ==
  \A i \in 1..Len(last.written) :
    (IsRequestOf(last.unit, "tools/call") /\ IsResult(Written(i))) =>
      /\ "content" \in DOMAIN Written(i).result
      /\ Len(Written(i).result.content) >= 1
      /\ \A k \in 1..Len(Written(i).result.content) :
           Written(i).result.content[k].type = "text"

\* C16 witness: a tools/call was answered by a result
C16_Witness ==
  /\ IsRequestOf(last.unit, "tools/call")
  /\ Len(last.written) = 1 /\ IsResult(Written(1))

\* ---------------------------------------------------------------------------
\* One session step by step: the client sends units at any time, the loop
\* reads one, handles it, writes its response, and only then reads again.

\* the requests a client sends in this view
SeqRequests ==
  { MkRequest(JNum(1), JStr("initialize"), Absent),
    MkRequest(Absent, JStr("notifications/initialized"), Absent),
    MkRequest(JStr("1"), JStr("tools/list"), Absent) }

SeqUnits ==
  { Unit("malformed", NoValue), Unit("json", JList(<<>>)) }
    \cup { Unit("json", q) : q \in SeqRequests }
    \cup { Unit(IF server = "stdio" THEN "blank" ELSE "binary", NoValue) }

\* one pass of the loop of the server of this session over one unit
LoopPass(unit, ok) ==
  IF server = "stdio" THEN run_stdio(self, unit, ok, 0)
                      ELSE handle_client(self, unit, ok, 0)

PassRecord(unit, r) ==
  [unit |-> unit, pre |-> state, written |-> r.written,
   failed |-> r.failed, exc |-> r.exc]

Tagged(seq, written) == [i \in 1..Len(written) |-> [seq |-> seq, unit |-> written[i]]]

\* faulty variant of after_dispatch: the write is started and not waited for
after_dispatch_detached(written) == "read"

\* where the loop goes after the handler returned
after_dispatch(written) == IF written = <<>> THEN "read" ELSE "write"

SeqStart ==
  /\ state = "READY"
  /\ state' = "RUNNING"
  /\ UNCHANGED <<multiVars, server, self, exitPath, last, prevKind, listed, remaining, seqVars>>

\* the client puts one more unit, or the end of the stream, on the transport
SeqArrive ==
  /\ ~closed
  /\ \E unit \in SeqUnits \cup EndUnits :
       /\ unit \notin EndUnits => arrived < MaxQueue
       /\ inbox' = Append(inbox, [seq |-> arrived + 1, unit |-> unit])
       /\ arrived' = arrived + 1
       /\ closed' = (unit \in EndUnits)
  /\ UNCHANGED <<multiVars, server, self, state, exitPath, last, prevKind, listed, remaining,
                 pc, cur, pending, wire, taken>>

\* the loop takes the next unit off the transport; the end of the stream and
\* the units that hold no text are settled here
SeqRead ==
  /\ state = "RUNNING" /\ pc = "read" /\ inbox # <<>>
  /\ LET item == Head(inbox)
         r == LoopPass(item.unit, TRUE)
     IN /\ inbox' = Tail(inbox)
        /\ cur' = item
        /\ IF item.unit.kind \in {"json", "malformed"}
             THEN /\ pc' = "dispatch"
                  /\ UNCHANGED <<state, exitPath, last>>
             ELSE /\ pc' = "read"
                  /\ state' = r.state
                  /\ exitPath' = r.exit
                  /\ last' = PassRecord(item.unit, r)
  /\ UNCHANGED <<multiVars, server, self, prevKind, listed, remaining, pending, wire, arrived, closed>>
  /\ taken' = Append(taken, Head(inbox).unit)

\* the unit read is parsed and handled; its response, if any, waits to be written
SeqDispatch ==
  /\ state = "RUNNING" /\ pc = "dispatch"
  /\ LET r == LoopPass(cur.unit, TRUE)
     IN /\ state' = r.state
        /\ exitPath' = r.exit
        /\ last' = PassRecord(cur.unit, r)
        /\ pending' = pending \o Tagged(cur.seq, r.written)
        /\ pc' = IF r.state = "RUNNING" THEN after_dispatch(r.written) ELSE "read"
  /\ UNCHANGED <<multiVars, server, self, prevKind, listed, remaining, inbox, cur, wire, arrived, closed, taken>>

\* the response is written, or the transport fails under the write and the
\* response is lost
SeqWrite ==
  /\ state = "RUNNING" /\ pc = "write" /\ pending # <<>>
  /\ \E ok \in BOOLEAN :
       LET r == LoopPass(cur.unit, ok)
       IN /\ state' = r.state
          /\ exitPath' = r.exit
          /\ last' = PassRecord(cur.unit, r)
          /\ wire' = IF ok THEN Append(wire, Head(pending)) ELSE wire
          /\ pending' = Tail(pending)
          /\ pc' = "read"
  /\ UNCHANGED <<multiVars, server, self, prevKind, listed, remaining, inbox, cur, arrived, closed, taken>>

InitSeq == Init

NextSeq == SeqStart \/ SeqArrive \/ SeqRead \/ SeqDispatch \/ SeqWrite

SpecSeq == InitSeq /\ [][NextSeq]_vars

\* C17: within one session the units are handled in arrival order with at most
\* one in flight: the unit being handled is older than every unit still on the
\* transport, at most one response waits and it answers the unit being
\* handled, nothing waits to be written when the next unit is read or
\* handled, and the responses on the wire are in the order of their requests.
C17_OneInFlightInOrder ==
  /\ \A i \in 1..Len(inbox) : inbox[i].seq > cur.seq
  /\ \A i \in 1..Len(inbox), j \in 1..Len(inbox) : i < j => inbox[i].seq < inbox[j].seq
  /\ Len(pending) <= 1
  /\ \A i \in 1..Len(pending) : pending[i].seq = cur.seq /\ pc = "write"
  /\ \A i \in 1..Len(wire), j \in 1..Len(wire) : i < j => wire[i].seq < wire[j].seq
  /\ \A i \in 1..Len(wire) : wire[i].seq <= cur.seq
  /\ pc = "dispatch" => \A i \in 1..Len(wire) : wire[i].seq < cur.seq
  /\ (state = "RUNNING" /\ pc # "write") => pending = <<>>

\* two responses are on the wire, a third is being written and a unit waits
C17_Witness ==
  /\ Len(wire) >= 2
  /\ pc = "write" /\ pending # <<>>
  /\ inbox # <<>>

\* C18: the state of a session only moves READY -> RUNNING -> TERMINATED, and
\* a terminated session stays terminated and takes no unit off the transport,
\* handles nothing and writes nothing, whatever the client still sends.
C18_LifecycleForwardOnly ==
  [][ /\ state = "READY" => state' \in {"READY", "RUNNING"}
      /\ state = "RUNNING" => state' \in {"RUNNING", "TERMINATED"}
      /\ state = "TERMINATED" =>
           /\ state' = "TERMINATED"
           /\ Len(inbox') >= Len(inbox)
           /\ cur' = cur /\ pending' = pending /\ pc' = pc
           /\ wire' = wire ]_vars

\* the session has ended and units the client sent are still on the transport
C18_Witness ==
  /\ state = "TERMINATED"
  /\ inbox # <<>>
  /\ ~closed

\* C19: when the client sends a finite sequence of units and then ends the
\* stream, and the transport does not fail, a session that has terminated
\* left through the end-of-stream path, with every unit sent before the end
\* read, handled and answered: nothing is left on the transport or unwritten.
C19_EndsThroughEndOfStream ==
  (/\ state = "TERMINATED" /\ closed /\ ~last.failed
   /\ \A i \in 1..Len(inbox) : inbox[i].unit.kind # "readerror") =>
    /\ exitPath = "eof"
    /\ inbox = <<>>
    /\ pending = <<>>
    /\ cur.seq = arrived

\* ---------------------------------------------------------------------------
\* Two connections of one WebSocket server: websockets.serve runs one
\* handle_client per connection on the one server object, and the event loop
\* switches between them where they wait: for a frame and for a send.

MultiRequests ==
  { MkRequest(JNum(1), JStr("initialize"), Absent),
    MkRequest(JStr("1"), JStr("tools/list"), Absent),
    MkRequest(JNum(1), JStr("tools/call"),
              JDict(("name" :> JStr("websocket_search"))
                    @@ ("arguments" :> JDict("query" :> JStr("q"))))),
    MkRequest(Absent, JStr("notifications/initialized"), Absent) }

MultiUnits ==
  { Unit("malformed", NoValue), Unit("eof", NoValue) }
    \cup { Unit("json", q) : q \in MultiRequests }

\* faulty variant of self_after: tools/list records on the server object that
\* the catalog was listed
self_after_marking(srv, message) ==
  IF IsRequestOf(message, "tools/list")
    THEN [srv EXCEPT !.capabilities = [tools |-> ("listed" :> JBool(TRUE))]]
    ELSE srv

\* the server object after one pass of handle_client: no statement of
\* handle_client or handle_request assigns an attribute of self
self_after(srv, message) == srv

\* connection o is suspended at "async for message in websocket"
waits_for_frame(o) == mstate[o] = "RUNNING" /\ mpend[o] = <<>>

\* faulty variant of may_run: waiting for a frame holds the thread, so no
\* other connection runs while one waits
may_run_blocking(s) == \A o \in Sessions \ {s} : ~waits_for_frame(o)

\* the event loop can resume connection s whenever it is ready: a connection
\* that waits for a frame or for a send is suspended and holds nothing
may_run(s) == TRUE

MultiConnect(s) ==
  /\ mstate[s] = "READY"
  /\ mstate' = [mstate EXCEPT ![s] = "RUNNING"]
  /\ UNCHANGED <<got, mpend, sent>>
  /\ UNCHANGED <<server, self, state, exitPath, last, prevKind, listed, remaining, seqVars>>

\* connection s reads a frame and handles it: handle_request never waits, so
\* no other connection runs between the read and the response being ready
MultiReceive(s) ==
  /\ mstate[s] = "RUNNING" /\ mpend[s] = <<>>
  /\ may_run(s)
  /\ \E message \in MultiUnits :
       LET r == handle_client(self, message, TRUE, 0)
       IN /\ message.kind # "eof" => Len(got[s]) < MaxFrames
          /\ got' = [got EXCEPT ![s] = Append(@, message)]
          /\ mpend' = [mpend EXCEPT ![s] = r.written]
          /\ mstate' = [mstate EXCEPT ![s] = r.state]
          /\ self' = self_after(self, message)
  /\ UNCHANGED sent
  /\ UNCHANGED <<server, state, exitPath, last, prevKind, listed, remaining, seqVars>>

\* the response of connection s is sent, or the send fails and ends the connection
MultiSend(s) ==
  /\ mstate[s] = "RUNNING" /\ mpend[s] # <<>>
  /\ may_run(s)
  /\ \E ok \in BOOLEAN :
       LET r == handle_client(self, got[s][Len(got[s])], ok, 0)
       IN /\ sent' = [sent EXCEPT ![s] = IF ok THEN @ \o mpend[s] ELSE @]
          /\ mpend' = [mpend EXCEPT ![s] = <<>>]
          /\ mstate' = [mstate EXCEPT ![s] = r.state]
  /\ UNCHANGED got
  /\ UNCHANGED <<server, self, state, exitPath, last, prevKind, listed, remaining, seqVars>>

InitMulti == Init /\ server = "ws"

NextMulti == \E s \in Sessions : MultiConnect(s) \/ MultiReceive(s) \/ MultiSend(s)

SpecMulti == InitMulti /\ [][NextMulti]_vars

\* the responses a connection is sent when it is the only one: the frames are
\* handled one after the other on a server object no other connection touches
RECURSIVE SoloFrom(_, _)
SoloFrom(srv, frames) ==
  IF frames = <<>> THEN <<>>
  ELSE LET r == handle_client(srv, Head(frames), TRUE, 0)
       IN IF r.state # "RUNNING" THEN <<>>
          ELSE r.written \o SoloFrom(self_after(srv, Head(frames)), Tail(frames))

Solo(frames) == SoloFrom(WebSocketMCPServer_init, frames)

IsPrefix(p, q) == Len(p) <= Len(q) /\ \A i \in 1..Len(p) : p[i] = q[i]

\* C20: under every interleaving of two connections, the responses sent on
\* each are those it would be sent alone on the same frames: what was sent is
\* a prefix of the solo responses, and with the response waiting to be sent
\* it is all of them while the connection runs.
C20_SessionsIndependent ==
  \A s \in Sessions :
    /\ IsPrefix(sent[s] \o mpend[s], Solo(got[s]))
    /\ mstate[s] = "RUNNING" => sent[s] \o mpend[s] = Solo(got[s])

\* both connections were answered, one of them after the other had listed the
\* tools and made a call
C20_Witness ==
  /\ \E i \in 1..Len(got["s1"]) : IsRequestOf(got["s1"][i], "tools/call")
  /\ \E i \in 1..Len(got["s1"]) : IsRequestOf(got["s1"][i], "tools/list")
  /\ Len(sent["s1"]) = Len(got["s1"])
  /\ sent["s2"] # <<>>
  /\ IsRequestOf(got["s2"][Len(got["s2"])], "initialize")
  /\ Len(got["s2"]) = Len(sent["s2"])

\* the event loop is fair to a connection whose response is ready to be sent;
\* nothing obliges a client to connect or to send a frame
SpecMultiFair == SpecMulti /\ \A s \in Sessions : WF_vars(MultiSend(s))

\* C21: under fair scheduling a frame handled on one connection is answered
\* (its response is sent, or the send fails and the connection ends) whatever
\* the other connection does, also when it waits for a frame for ever or never
\* sends anything.
C21_WaitingDoesNotBlock ==
  \A s \in Sessions : (mpend[s] # <<>>) ~> (mpend[s] = <<>>)

\* one connection was answered while the other, connected, has sent nothing
\* and waits for its first frame
C21_Witness ==
  /\ sent["s1"] # <<>>
  /\ got["s2"] = <<>> /\ waits_for_frame("s2")

\* ---------------------------------------------------------------------------
\* The responses of a session compared with those of the same units handled
\* one after the other, with the units that hold no text left out.

\* the responses to the units, each handled by one pass whose write succeeds,
\* up to the unit that ends the loop
RECURSIVE Answers(_)
Answers(units) ==
  IF units = <<>> THEN <<>>
  ELSE LET r == LoopPass(Head(units), TRUE)
       IN IF r.state # "RUNNING" THEN <<>>
          ELSE r.written \o Answers(Tail(units))

Without(units, kind) == SelectSeq(units, LAMBDA u : u.kind # kind)

\* the units read whose pass has come to the write or beyond
Handled ==
  IF state = "RUNNING" /\ pc = "dispatch" THEN SubSeq(taken, 1, Len(taken) - 1)
  ELSE taken

\* the responses written and the one about to be written
Produced ==
  [i \in 1..Len(wire) |-> wire[i].unit] \o [i \in 1..Len(pending) |-> pending[i].unit]

\* C22: in the WebSocket server a binary frame produces no outbound frame,
\* raises nothing and leaves the session running, and the responses of the
\* session are those of its frames with the binary frames left out.
C22_BinaryFrameDiscarded ==
  server = "ws" =>
    /\ last.unit.kind = "binary" =>
         /\ last.written = <<>> /\ last.exc = "" /\ ~last.failed
         /\ state = "RUNNING"
    /\ IsPrefix(Produced, Answers(Without(Handled, "binary")))
    /\ state = "RUNNING" => Produced = Answers(Without(Handled, "binary"))

\* a text frame read after a binary frame has been answered
C22_Witness ==
  /\ server = "ws"
  /\ \E i \in 1..Len(taken), k \in 1..Len(wire) :
       taken[i].kind = "binary" /\ wire[k].seq > i

\* C23: in the stdio server a blank line produces no output and leaves the
\* session running, the responses of the session are those of its lines with
\* the blank lines left out, and of the reads that hold no text only the
\* zero-length read ends the loop, through the end-of-stream path.
C23_BlankLineSkipped ==
  server = "stdio" =>
    /\ last.unit.kind = "blank" =>
         /\ last.written = <<>> /\ last.exc = "" /\ ~last.failed
         /\ state = "RUNNING"
    /\ IsPrefix(Produced, Answers(Without(Handled, "blank")))
    /\ state = "RUNNING" => Produced = Answers(Without(Handled, "blank"))
    /\ last.unit.kind = "eof" => state = "TERMINATED" /\ exitPath = "eof"

\* a line read after a blank line has been answered
C23_Witness ==
  /\ server = "stdio"
  /\ \E i \in 1..Len(taken), k \in 1..Len(wire) :
       taken[i].kind = "blank" /\ wire[k].seq > i

\* the pass of the loop over the unit on a session that has read nothing
FreshPass(unit, ok) ==
  IF server = "stdio" THEN run_stdio(MCPTestServer_init, unit, ok, 0)
                      ELSE handle_client(WebSocketMCPServer_init, unit, ok, 0)

\* C24: the response to a request of a deterministic method (every request
\* but the calls of the tools that read the clock) is the one a session that
\* has read nothing gives to it, whatever the session read before; a
\* tools/call is served the same with and without an initialize before it.
C24_ResponseIndependentOfHistory ==
  (LastIsRequest /\ ~ReadsClock(last.unit)) =>
    last.written = FreshPass(last.unit, ~last.failed).written

\* an echo call that is the first unit of its session, never initialized, is
\* answered with a result
C24_Witness ==
  /\ prevKind = "none" /\ listed = <<>>
  /\ LastIsCall /\ LastHasId /\ LastName = JStr("echo")
  /\ Len(last.written) = 1 /\ IsResult(Written(1))

\* C25: a failure of the transport under a read or a write ends the session
\* with that step, and from then on the session reads nothing, handles
\* nothing and writes nothing: there is no second attempt.
C25_TransportFailureTerminates ==
  [][ /\ last'.failed => state' = "TERMINATED"
      /\ last.failed =>
           /\ state' = "TERMINATED"
           /\ taken' = taken /\ cur' = cur
           /\ pending' = pending /\ wire' = wire ]_vars

\* a write failed while the client had sent more units, which stay unread
C25_Witness ==
  /\ last.failed /\ last.exc \in {"BrokenPipeError", "ConnectionClosed"}
  /\ last.unit.kind \in {"json", "malformed"}
  /\ state = "TERMINATED"
  /\ inbox # <<>>

\* C26: in the WebSocket server, while sends succeed, no frame ends the
\* session, a text frame is answered by at most one frame, and a frame whose
\* JSON value is not an object, or a tools/call whose params is present and
\* not an object, is answered by one error -32603 with id null.
C26_WsExceptionContained ==
  (server = "ws" /\ ~last.failed /\ last.unit.kind \in {"json", "malformed", "binary"}) =>
    /\ state = "RUNNING"
    /\ Len(last.written) <= 1
    /\ (\/ (last.unit.kind = "json" /\ ~IsDict(LastRequest))
        \/ (LastIsRequest /\ LastMethod = JStr("tools/call")
              /\ HasKey(LastRequest, "params") /\ ~IsDict(LastParams))) =>
         /\ Len(last.written) = 1
         /\ IsError(Written(1)) /\ ~IsResult(Written(1))
         /\ Written(1).error.code = -32603
         /\ Written(1).id = PyNone

\* a tools/call with an id and params null was answered with id null
C26_Witness ==
  /\ server = "ws" /\ state = "RUNNING"
  /\ LastHasId /\ LastRequest.f["id"] # PyNone
  /\ LastMethod = JStr("tools/call")
  /\ HasKey(LastRequest, "params") /\ LastParams = PyNone
  /\ Len(last.written) = 1 /\ Written(1).id = PyNone

\* C27: in the stdio server a non-blank line read by a running session has
\* one of two outcomes: one line, a JSON-RPC response, is written to stdout
\* and the session keeps running, or nothing is written to stdout and the
\* session has terminated.
C27_OneLineOrTermination ==
  (server = "stdio" /\ last.unit.kind \in {"json", "malformed"}) =>
    /\ last.pre = "RUNNING"
    /\ \/ /\ Len(last.written) = 1
          /\ last.written[1].kind = "json" /\ IsResponse(Written(1))
          /\ Written(1).jsonrpc = "2.0"
          /\ IsError(Written(1)) # IsResult(Written(1))
          /\ state = "RUNNING"
       \/ /\ last.written = <<>>
          /\ state = "TERMINATED"

\* a line ended the session with nothing written while stdout was writable
C27_Witness ==
  /\ server = "stdio" /\ last.unit.kind = "json"
  /\ ~last.failed
  /\ last.written = <<>> /\ state = "TERMINATED"

\* C28: in the WebSocket server a tools/call is answered by one response, and
\* its checks come in a fixed order: arguments that are not an object give
\* -32602 whatever the tool name; then a name outside the catalog gives -32601
\* whatever the arguments hold; then websocket_search without a query gives
\* -32602; only a call that passes them all gets a result.
C28_ValidationPrecedence ==
  (server = "ws" /\ LastIsCall /\ ~last.failed) =>
    LET known == IsStr(LastName) /\ LastName.s \in Catalog
        searchNoQuery == /\ LastName = JStr("websocket_search")
                         /\ ~Truthy(Get(LastArguments, "query", JStr("")))
    IN
    /\ Len(last.written) = 1
    /\ IsError(Written(1)) # IsResult(Written(1))
    /\ IF ~IsDict(LastArguments) THEN
         /\ IsError(Written(1)) /\ Written(1).error.code = -32602
         /\ Written(1).error.message =
              "Invalid parameters: arguments must be a JSON object, got <class '"
              \o PyTypeName(LastArguments) \o "'>"
       ELSE IF ~known THEN
         /\ IsError(Written(1)) /\ Written(1).error.code = -32601
       ELSE IF searchNoQuery THEN
         /\ IsError(Written(1)) /\ Written(1).error.code = -32602
         /\ Written(1).error.message =
              "Invalid parameters: 'query' is required for websocket_search"
       ELSE IsResult(Written(1))

\* a call of a tool outside the catalog with arguments that are not an object
\* was answered with -32602
C28_Witness ==
  /\ server = "ws" /\ LastIsCall /\ ~last.failed
  /\ LastName = JStr("missing_tool")
  /\ ~IsDict(LastArguments)
  /\ Len(last.written) = 1 /\ IsError(Written(1))
  /\ Written(1).error.code = -32602

====
